---- MODULE Spec2Model ----
(***************************************************************************)
(* Model of the e-commerce cleaning pipeline (clean__transform__pipeline)  *)
(* and of the stream file of the data generator (Extract__data).           *)
(*                                                                         *)
(* Values.  A cell of a table is a tagged record:                          *)
(*   NA        a missing value (np.nan, pd.NA and pd.NaT alike)            *)
(*   Str(s)    a text, s a sequence of one-character strings               *)
(*   Flt(m)    a float / decimal number, m its value in thousandths        *)
(*   I64(n)    an integer (Int64 / int64 column)                           *)
(*   Ts(n)     a UTC timestamp, n the ordinal of its instant               *)
(* A date text is abstracted as the decimal digits of that ordinal.        *)
(* A table (DataFrame) is a sequence of rows; a row is a record holding    *)
(* its columns and the history field src, the position of the row in the   *)
(* raw input it was read from.                                             *)
(***************************************************************************)
EXTENDS Integers, Sequences, FiniteSets, TLC

NA == [t |-> "na", v |-> 0]
Str(s) == [t |-> "str", v |-> s]
Flt(m) == [t |-> "flt", v |-> m]
I64(n) == [t |-> "int", v |-> n]
Ts(n) == [t |-> "ts", v |-> n]

isna(c) == c.t = "na"

(* ------------------------------ texts ---------------------------------- *)

Digits == <<"0", "1", "2", "3", "4", "5", "6", "7", "8", "9">>
LowerCase == <<"a", "b", "c", "n", "u">>
UpperCase == <<"A", "B", "C", "N", "U">>

DigitOf == [ch \in {Digits[i] : i \in 1..10} |-> (CHOOSE i \in 1..10 : Digits[i] = ch) - 1]
LowerOf == [ch \in {UpperCase[i] : i \in 1..5} |-> LowerCase[CHOOSE i \in 1..5 : UpperCase[i] = ch]]
UpperOf == [ch \in {LowerCase[i] : i \in 1..5} |-> UpperCase[CHOOSE i \in 1..5 : LowerCase[i] = ch]]

IsDigit(ch) == ch \in DOMAIN DigitOf
DigitVal(ch) == DigitOf[ch]
IsSpace(ch) == ch = " "
IsLetter(ch) == ch \in DOMAIN LowerOf \/ ch \in DOMAIN UpperOf

\* str.lower / str.upper on one character
lower(ch) == IF ch \in DOMAIN LowerOf THEN LowerOf[ch] ELSE ch
upper(ch) == IF ch \in DOMAIN UpperOf THEN UpperOf[ch] ELSE ch

\* str.lower()
str_lower(s) == [i \in 1..Len(s) |-> lower(s[i])]

\* re.sub(r"\s+", "", s)
remove_whitespace(s) == SelectSeq(s, LAMBDA ch : ~IsSpace(ch))

\* str.strip()
RECURSIVE lstrip(_)
lstrip(s) == IF s # <<>> /\ IsSpace(Head(s)) THEN lstrip(Tail(s)) ELSE s
RECURSIVE rstrip(_)
rstrip(s) == IF s # <<>> /\ IsSpace(s[Len(s)]) THEN rstrip(SubSeq(s, 1, Len(s) - 1)) ELSE s
str_strip(s) == rstrip(lstrip(s))

\* str.title(): a letter that follows a non-letter is upper-cased, any other lower-cased
str_title(s) ==
    [i \in 1..Len(s) |-> IF i = 1 \/ ~IsLetter(s[i - 1]) THEN upper(s[i]) ELSE lower(s[i])]

RECURSIVE AllDigits(_)
AllDigits(s) == s = <<>> \/ (IsDigit(Head(s)) /\ AllDigits(Tail(s)))

RECURSIVE DigitsValue(_)
DigitsValue(s) ==
    IF s = <<>> THEN 0 ELSE DigitsValue(SubSeq(s, 1, Len(s) - 1)) * 10 + DigitVal(s[Len(s)])

RECURSIVE NatText(_)
NatText(n) == IF n < 10 THEN <<Digits[n + 1]>> ELSE NatText(n \div 10) \o <<Digits[(n % 10) + 1]>>

\* str(np.nan), str(pd.NaT)
NanText == <<"n", "a", "n">>
NaTText == <<"N", "a", "T">>

(* ------------------------------ numbers -------------------------------- *)

\* The value in thousandths of an unsigned decimal text "ddd" or "ddd.fff"
\* (at most three fraction digits), or -1 if the text is no such number.
UnsignedThousandths(s) ==
    LET dots == {i \in 1..Len(s) : s[i] = "."} IN
    IF dots = {} THEN
        IF s # <<>> /\ AllDigits(s) THEN DigitsValue(s) * 1000 ELSE -1
    ELSE IF Cardinality(dots) > 1 THEN -1
    ELSE LET d == CHOOSE i \in dots : TRUE
             ip == SubSeq(s, 1, d - 1)
             fp == SubSeq(s, d + 1, Len(s))
             pad == CASE Len(fp) = 1 -> 100 [] Len(fp) = 2 -> 10 [] OTHER -> 1
         IN IF (ip # <<>> \/ fp # <<>>) /\ AllDigits(ip) /\ Len(fp) <= 3 /\ AllDigits(fp)
            THEN DigitsValue(ip) * 1000 + DigitsValue(fp) * pad
            ELSE -1

\* The parse of a decimal text shared by pd.to_numeric and Decimal(str): Flt or NA.
ParseNumber(s) ==
    LET neg == s # <<>> /\ Head(s) = "-"
        u == UnsignedThousandths(IF neg THEN Tail(s) ELSE s)
    IN IF u < 0 THEN NA ELSE Flt(IF neg THEN 0 - u ELSE u)

\* pd.to_numeric(col, errors='coerce') on one cell
to_numeric(c) ==
    CASE c.t = "str" -> ParseNumber(c.v)
      [] c.t = "int" -> Flt(c.v * 1000)
      [] c.t = "flt" -> c
      [] OTHER -> NA

\* .astype('Int64') raises on a float column holding a non-integral value
Int64Raises(c) == c.t = "flt" /\ c.v % 1000 # 0

\* .astype('Int64') on one cell of a column it accepts
astype_Int64(c) == IF c.t = "flt" THEN I64(c.v \div 1000) ELSE c

Abs(n) == IF n < 0 THEN 0 - n ELSE n

\* float -> int64 truncates toward zero
Trunc(m) == IF m < 0 THEN 0 - ((0 - m) \div 1000) ELSE m \div 1000

\* A quantize that rounds a tie to the even hundredth (ROUND_HALF_EVEN)
QuantizeHalfEven(m) ==
    LET lo == (Abs(m) \div 10) * 10
        rem == Abs(m) % 10
        q == IF rem > 5 \/ (rem = 5 /\ (lo \div 10) % 2 = 1) THEN lo + 10 ELSE lo
    IN IF m < 0 THEN 0 - q ELSE q

\* Decimal.quantize(Decimal("1.00"), rounding=ROUND_HALF_UP) on thousandths:
\* to the nearest hundredth, a tie going away from zero
QuantizeHalfUp(m) ==
    LET q == ((Abs(m) + 5) \div 10) * 10 IN IF m < 0 THEN 0 - q ELSE q

\* money_round(x): Decimal(str(x)) quantized half-up, NaN when Decimal(str(x)) raises
\* or x is NaN
money_round(x) ==
    LET d == CASE x.t = "flt" -> x
               [] x.t = "int" -> Flt(x.v * 1000)
               [] x.t = "str" -> ParseNumber(x.v)
               [] OTHER -> NA
    IN IF isna(d) THEN NA ELSE Flt(QuantizeHalfUp(d.v))

(* ----------------------------- normalizers ------------------------------ *)

\* str(x) of a cell that holds a text or np.nan
str_of(c) == IF isna(c) THEN NanText ELSE c.v

\* "not x" of a cell: true of None and of the empty text, false of np.nan
falsy(c) == c = Str(<<>>)

\* normalize_email(email)
normalize_email(email) ==
    IF falsy(email) \/ str_strip(str_of(email)) = <<>> THEN NA
    ELSE Str(remove_whitespace(str_lower(str_of(email))))

\* phonenumbers.parse(cleaned, "IN") followed by is_valid_number, restricted to
\* Indian mobile numbers: ten digits led by 6..9, written nationally or after +91.
\* The national number of a valid text, <<>> of any other.
PhoneNational(cleaned) ==
    LET nat == IF Len(cleaned) = 13 /\ SubSeq(cleaned, 1, 3) = <<"+", "9", "1">>
               THEN SubSeq(cleaned, 4, 13) ELSE cleaned
    IN IF Len(nat) = 10 /\ AllDigits(nat) /\ DigitVal(nat[1]) >= 6 THEN nat ELSE <<>>

\* normalize_phone(phone, default_region="IN")
normalize_phone(phone) ==
    IF falsy(phone) \/ str_strip(str_of(phone)) = <<>> THEN NA
    ELSE LET cleaned == SelectSeq(str_of(phone), LAMBDA ch : IsDigit(ch) \/ ch = "+")
             digits == SelectSeq(cleaned, IsDigit)
         IN IF PhoneNational(cleaned) # <<>>
            THEN Str(<<"+", "9", "1">> \o PhoneNational(cleaned))
            ELSE IF Len(digits) >= 8 THEN Str(digits) ELSE NA

\* parse_date_safe(val): a timestamp passes through, a date text is parsed, anything
\* else (np.nan, NaT, an unparseable text) is coerced to NaT
parse_date_safe(val) ==
    CASE val.t = "ts" -> val
      [] val.t = "str" ->
            IF str_strip(val.v) # <<>> /\ AllDigits(val.v) THEN Ts(DigitsValue(val.v)) ELSE NA
      [] OTHER -> NA

\* Series.astype(str) on one cell of a text column.  Before pandas 3 a missing
\* value becomes the text "nan"; pandas 3 keeps it missing.
astype_str(c, keeps_na) == IF isna(c) THEN (IF keeps_na THEN NA ELSE Str(NanText)) ELSE c

\* Series.astype(str) on one cell of a datetime column ("NaT" before pandas 3)
datetime_astype_str(c, keeps_na) ==
    IF isna(c) THEN (IF keeps_na THEN NA ELSE Str(NaTText)) ELSE Str(NatText(c.v))

\* .replace({"": np.nan})
replace_empty(c) == IF c = Str(<<>>) THEN NA ELSE c

\* .str.strip() and .str.title() leave a missing value missing
cell_strip(c) == IF isna(c) THEN NA ELSE Str(str_strip(c.v))
cell_title(c) == IF isna(c) THEN NA ELSE Str(str_title(c.v))

\* Series.fillna(other), Series + Series
fillna(c, other) == IF isna(c) THEN other ELSE c
concat(a, b) == IF isna(a) \/ isna(b) THEN NA ELSE Str(a.v \o b.v)

(* ------------------------------ DataFrames ------------------------------- *)

\* df[mask]
RECURSIVE SelectByMask(_, _)
SelectByMask(df, mask) ==
    IF df = <<>> THEN <<>>
    ELSE LET n == Len(df)
             rest == SelectByMask(SubSeq(df, 1, n - 1), SubSeq(mask, 1, n - 1))
         IN IF mask[n] THEN Append(rest, df[n]) ELSE rest

Perms(n) == {p \in [1..n -> 1..n] : \A i, j \in 1..n : i # j => p[i] # p[j]}

\* df.sort_values(by=col): ascending, missing values last in their input order.
\* The default kind is quicksort, which is not stable: rows with equal values may
\* come out in any order.  The set of the possible results.
sort_values(df, col) ==
    LET n == Len(df)
        InOrder(p, i, j) ==
            IF isna(df[p[j]][col]) THEN isna(df[p[i]][col]) => p[i] < p[j]
            ELSE ~isna(df[p[i]][col]) /\ df[p[i]][col].v <= df[p[j]][col].v
    IN {[i \in 1..n |-> df[p[i]]] :
          p \in {q \in Perms(n) : \A i, j \in 1..n : i < j => InOrder(q, i, j)}}

\* A drop_duplicates whose result is not kept
keep_duplicates(df, keys) == df

\* df.drop_duplicates(subset=[key]): the first row of every key is kept; keys is the
\* key column
drop_duplicates(df, keys) ==
    SelectByMask(df, [i \in 1..Len(df) |-> \A j \in 1..(i - 1) : keys[j] # keys[i]])

(* --------------------------- clean_customers ----------------------------- *)

\* lines 96-104: the column assignments, row by row
customers_columns(r, keeps_na) ==
    [r EXCEPT !.customer_id = astype_Int64(to_numeric(@)),
              !.name = replace_empty(cell_strip(astype_str(@, keeps_na))),
              !.email = normalize_email(@),
              !.phone = normalize_phone(@),
              !.city = replace_empty(cell_title(astype_str(@, keeps_na))),
              !.state = replace_empty(cell_title(astype_str(@, keeps_na))),
              !.signup_date = parse_date_safe(@)]

\* lines 112-116: the dup_key column
dup_key(r, keeps_na) ==
    fillna(r.email, fillna(r.phone, concat(r.name, datetime_astype_str(r.signup_date, keeps_na))))

\* clean_customers(df): whether it raises, the drop count it prints, and the tables
\* it may return
clean_customers(df, keeps_na) ==
    LET cols == [i \in 1..Len(df) |-> customers_columns(df[i], keeps_na)]
        valid == SelectByMask(cols, [i \in 1..Len(df) |->
                                        ~isna(cols[i].customer_id) /\ ~isna(cols[i].name)])
    IN [raises |-> \E i \in 1..Len(df) : Int64Raises(to_numeric(df[i].customer_id)),
        dropped |-> Len(df) - Len(valid),
        returns |-> {drop_duplicates(s, [i \in 1..Len(s) |-> dup_key(s[i], keeps_na)]) :
                       s \in sort_values(valid, "signup_date")}]

(* ---------------------------- clean_products ----------------------------- *)

\* lines 126-132: the column assignments, row by row
products_columns(r, keeps_na) ==
    [r EXCEPT !.product_id = astype_Int64(to_numeric(@)),
              !.product_name = replace_empty(cell_strip(astype_str(@, keeps_na))),
              !.category = replace_empty(cell_title(astype_str(@, keeps_na))),
              !.brand = replace_empty(cell_title(astype_str(@, keeps_na))),
              !.price = money_round(to_numeric(@)),
              !.stock_quantity = astype_Int64(to_numeric(@))]

\* clean_products(df): rows are deduplicated by product_id in input order
clean_products(df, keeps_na) ==
    LET cols == [i \in 1..Len(df) |-> products_columns(df[i], keeps_na)]
        valid == SelectByMask(cols, [i \in 1..Len(df) |->
                                        ~isna(cols[i].product_id) /\ ~isna(cols[i].product_name)])
    IN [raises |-> \E i \in 1..Len(df) : \/ Int64Raises(to_numeric(df[i].product_id))
                                         \/ Int64Raises(to_numeric(df[i].stock_quantity)),
        dropped |-> Len(df) - Len(valid),
        returns |-> {drop_duplicates(valid, [i \in 1..Len(valid) |-> valid[i].product_id])}]

(* ----------------------------- clean_orders ------------------------------ *)

\* .fillna(1).astype(int) on one cell of the numeric quantity column
quantity_int(c) == IF isna(c) THEN I64(1) ELSE I64(Trunc(c.v))

\* lines 146-160: the column assignments, row by row; columns is the header of df
orders_columns(r, columns, keeps_na) ==
    [r EXCEPT !.order_id = astype_Int64(to_numeric(@)),
              !.customer_id = astype_Int64(to_numeric(@)),
              !.product_id = astype_Int64(to_numeric(@)),
              !.quantity = quantity_int(to_numeric(@)),
              !.order_timestamp = IF "order_timestamp" \in columns
                                  THEN parse_date_safe(@)
                                  ELSE parse_date_safe(r.order_date),
              !.shipping_city = replace_empty(cell_title(astype_str(@, keeps_na))),
              !.payment_method = cell_title(astype_str(@, keeps_na)),
              !.status = cell_title(astype_str(@, keeps_na))]

\* df.get(col, "<text>").astype / .apply raises when the column is missing: the
\* default is a str, which has neither method
orders_header_raises(columns) ==
    \/ "shipping_city" \notin columns
    \/ "payment_method" \notin columns
    \/ "status" \notin columns
    \/ ("order_timestamp" \notin columns /\ "order_date" \notin columns)

\* A filter on the id being present (notna) rather than known
isin_notna(c, values) == ~isna(c)

\* Series.isin(values): a missing value is in no set of ids
isin(c, values) == ~isna(c) /\ c \in values

\* A compute_value that leaves the quantity out
compute_value_unit(row, price_map) ==
    IF row.product_id.v \in DOMAIN price_map THEN money_round(price_map[row.product_id.v]) ELSE NA

\* compute_value(row), lines 167-170
compute_value(row, price_map) ==
    LET pid == row.product_id.v IN
    IF pid \in DOMAIN price_map
    THEN money_round(IF isna(price_map[pid]) THEN NA
                     ELSE Flt(price_map[pid].v * row.quantity.v))
    ELSE NA

\* clean_orders(df, valid_customers, valid_products, price_map), called at instant now.
\* With no row left by the filter, df.apply(axis=1) returns a DataFrame and the
\* assignment of line 172 raises or not with the pandas installed: empty_raises.
clean_orders(df, columns, valid_customers, valid_products, price_map, now, keeps_na) ==
    LET cols == [i \in 1..Len(df) |-> orders_columns(df[i], columns, keeps_na)]
        kept == SelectByMask(cols, [i \in 1..Len(df) |->
                                       /\ isin(cols[i].customer_id, valid_customers)
                                       /\ isin(cols[i].product_id, valid_products)])
        valued == [i \in 1..Len(kept) |->
                     [kept[i] EXCEPT !.order_value = compute_value(kept[i], price_map),
                                     !.order_timestamp = fillna(@, Ts(now))]]
    IN [raises |-> \/ orders_header_raises(columns)
                   \/ \E i \in 1..Len(df) : \/ Int64Raises(to_numeric(df[i].order_id))
                                            \/ Int64Raises(to_numeric(df[i].customer_id))
                                            \/ Int64Raises(to_numeric(df[i].product_id)),
        empty_raises |-> kept = <<>>,
        dropped |-> Len(df) - Len(kept),
        returns |-> {drop_duplicates(s, [i \in 1..Len(s) |-> s[i].order_id]) :
                       s \in sort_values(valued, "order_timestamp")}]

(* --------------------------------- main ---------------------------------- *)

\* set(df[col])
id_set(df, col) == {df[i][col] : i \in 1..Len(df)}

\* dict(zip(prod['product_id'], prod['price'])): the last row of an id wins
price_dict(prod_df) ==
    [k \in {prod_df[i].product_id.v : i \in 1..Len(prod_df)} |->
        LET last == CHOOSE i \in 1..Len(prod_df) :
                       /\ prod_df[i].product_id.v = k
                       /\ \A j \in (i + 1)..Len(prod_df) : prod_df[j].product_id.v # k
        IN prod_df[last].price]

(* ------------------------------- inputs ---------------------------------- *)

MaxCust == 3
MaxProd == 2
MaxOrd == 2
StartClock == 5

\* A table of rows, each row tagged with its position in the table
WithSrc(t) == [i \in 1..Len(t) |-> [t[i] EXCEPT !.src = i]]

\* df is a table of at most n rows drawn from rows
IsTable(df, rows, n) == \E k \in 0..n : \E t \in [1..k -> rows] : df = WithSrc(t)

T(s) == Str(s)
Phone1 == T(<<"9", "8", "7", "6", "5", "4", "3", "2", "1", "0">>)
Phone2 == T(<<"+", "9", "1", " ", "9", "8", "7", "6", "5", "4", "3", "2", "1", "1">>)

CustRow(id, name, email, phone, date) ==
    [src |-> 0, customer_id |-> id, name |-> name, email |-> email, phone |-> phone,
     city |-> T(<<"a", "b">>), state |-> NA, signup_date |-> date]

ProdRow(id, name, price, stock) ==
    [src |-> 0, product_id |-> id, product_name |-> name, category |-> T(<<"a", " ", "b">>),
     brand |-> NA, price |-> price, stock_quantity |-> stock]

OrdRow(oid, cid, pid, qty, ts, pay, status, city) ==
    [src |-> 0, order_id |-> oid, customer_id |-> cid, product_id |-> pid, quantity |-> qty,
     order_timestamp |-> ts, order_date |-> NA, payment_method |-> pay, status |-> status,
     shipping_city |-> city, order_value |-> T(<<"9", ".", "9", "9">>)]

\* customers.csv: rows that differ in what makes a row valid
CustRowsValid ==
    {CustRow(id, name, T(<<" ">>), NA, T(<<"1">>)) :
        id \in {T(<<"1">>), T(<<"x">>), NA},
        name \in {T(<<" ", "A">>), T(<<" ">>), NA}}
    \cup {CustRow(T(<<"1", ".", "5">>), T(<<"A">>), T(<<" ">>), NA, T(<<"1">>))}

\* customers.csv: rows with an email, the same up to case and whitespace, with a
\* name or with a null name cell
CustRowsEmail ==
    {CustRow(T(<<"1">>), T(<<"A">>), email, NA, date) :
        email \in {T(<<"a">>), T(<<"A", " ">>)},
        date \in {T(<<"1">>), T(<<"2">>)}}
    \cup {CustRow(T(<<"1">>), NA, email, NA, date) :
        email \in {T(<<"a">>), T(<<"A", " ">>)},
        date \in {T(<<"0">>), T(<<"1">>)}}

\* customers.csv: rows without an email (a null cell, a blank text), with or
\* without a phone
CustRowsPhone ==
    {CustRow(T(<<"1">>), T(<<"A">>), email, phone, T(<<"1">>)) :
        email \in {NA, T(<<" ">>)},
        phone \in {Phone1, Phone2, NA}}

\* customers.csv: rows with neither email nor phone, with or without a signup date
CustRowsDate ==
    {CustRow(T(<<"1">>), name, T(<<" ">>), NA, date) :
        name \in {T(<<"A">>), T(<<"B">>)},
        date \in {T(<<"1">>), T(<<"2">>), NA}}

\* products.csv: rows that differ in what makes a row valid
ProdRowsValid ==
    {ProdRow(id, name, T(<<"2", ".", "0", "0", "5">>), T(<<"3">>)) :
        id \in {T(<<"1">>), T(<<"2">>), T(<<"x">>), NA},
        name \in {T(<<"a", " ", "b">>), T(<<" ">>), NA}}

\* products.csv: rows that differ in price and stock
ProdRowsPrice ==
    {ProdRow(id, T(<<"a">>), price, stock) :
        id \in {T(<<"1">>), T(<<"2">>)},
        price \in {T(<<"2", ".", "0", "0", "5">>), T(<<"1", ".", "5">>), T(<<"a", "b", "c">>), NA},
        stock \in {T(<<"3">>), NA}}
    \cup {ProdRow(T(<<"1">>), T(<<"a">>), T(<<"1">>), T(<<"1", ".", "5">>))}

\* orders.csv: rows that differ in the customer and product they refer to
OrdRowsRefs ==
    {OrdRow(oid, cid, pid, T(<<"1">>), T(<<"1">>), T(<<"u">>), T(<<"a">>), T(<<"a">>)) :
        oid \in {T(<<"1">>), T(<<"2">>)},
        cid \in {T(<<"1">>), T(<<"2">>), T(<<"x">>)},
        pid \in {T(<<"1">>), T(<<"2">>), T(<<"3">>)}}

\* orders.csv: rows that differ in order id and timestamp
OrdRowsTime ==
    {OrdRow(oid, T(<<"1">>), T(<<"1">>), T(<<"1">>), ts, T(<<"u">>), T(<<"a">>), T(<<"a">>)) :
        oid \in {T(<<"1">>), T(<<"2">>), NA},
        ts \in {T(<<"1">>), T(<<"2">>), T(<<"x">>), NA}}

\* orders.csv: rows that differ in quantity
OrdRowsQuantity ==
    {OrdRow(oid, T(<<"1">>), T(<<"1">>), qty, T(<<"1">>), T(<<"u">>), T(<<"a">>), T(<<"a">>)) :
        oid \in {T(<<"1">>), T(<<"2">>)},
        qty \in {T(<<"3">>), T(<<"b", "a", "d">>), T(<<"0">>), T(<<"-", "1">>),
                 T(<<"2", ".", "5">>), NA}}

\* orders.csv: rows that differ in payment method and status
OrdRowsText ==
    {OrdRow(oid, T(<<"1">>), T(<<"1">>), T(<<"1">>), T(<<"1">>), pay, status, T(<<"a", " ", "b">>)) :
        oid \in {T(<<"1">>), T(<<"2">>)},
        pay \in {T(<<"u", "b", " ", "c">>), T(<<"U", "B">>), NA},
        status \in {T(<<"a">>), NA}}

\* The header of orders.csv as the generator writes it, and the headers without a
\* column or with the legacy order_date column
FullHeader ==
    {"order_id", "customer_id", "product_id", "quantity", "order_timestamp",
     "payment_method", "status", "shipping_city", "order_value"}
Headers ==
    {FullHeader, FullHeader \ {"payment_method"}, FullHeader \ {"status"},
     (FullHeader \ {"order_timestamp"}) \cup {"order_date"}}

\* A table read under a header: a column missing from the header holds nothing, and
\* the timestamps of a legacy file stand in its order_date column
UnderHeader(df, columns) ==
    [i \in 1..Len(df) |->
        [df[i] EXCEPT !.order_timestamp = IF "order_timestamp" \in columns THEN @ ELSE NA,
                      !.order_date = IF "order_date" \in columns THEN df[i].order_timestamp ELSE NA,
                      !.payment_method = IF "payment_method" \in columns THEN @ ELSE NA,
                      !.status = IF "status" \in columns THEN @ ELSE NA]]

\* The tables the other files hold while one file is varied: two customers that
\* share an email and one without a name; a product listed twice, one without a
\* parseable price and one without an id; two orders of one id, one of a product
\* without a price and one of the customer that is deduplicated away
DefaultCust ==
    <<[CustRow(T(<<"1">>), T(<<"A">>), T(<<"a">>), Phone1, T(<<"1">>)) EXCEPT !.src = 1],
      [CustRow(T(<<"2">>), T(<<"B">>), T(<<"A">>), Phone2, T(<<"2">>)) EXCEPT !.src = 2],
      [CustRow(T(<<"3">>), T(<<" ">>), T(<<"b">>), NA, T(<<"1">>)) EXCEPT !.src = 3]>>
DefaultProd ==
    <<[ProdRow(T(<<"1">>), T(<<"a">>), T(<<"2", ".", "0", "0", "5">>), T(<<"3">>)) EXCEPT !.src = 1],
      [ProdRow(T(<<"1">>), T(<<"b">>), T(<<"1">>), T(<<"3">>)) EXCEPT !.src = 2],
      [ProdRow(T(<<"2">>), T(<<"c">>), T(<<"a", "b", "c">>), NA) EXCEPT !.src = 3],
      [ProdRow(T(<<"x">>), T(<<"c">>), T(<<"1">>), NA) EXCEPT !.src = 4]>>
DefaultOrd ==
    <<[OrdRow(T(<<"1">>), T(<<"1">>), T(<<"1">>), T(<<"2">>), T(<<"1">>), T(<<"u">>), T(<<"a">>), NA)
          EXCEPT !.src = 1],
      [OrdRow(T(<<"1">>), T(<<"1">>), T(<<"1">>), T(<<"1">>), T(<<"2">>), T(<<"u">>), T(<<"a">>), NA)
          EXCEPT !.src = 2],
      [OrdRow(T(<<"2">>), T(<<"1">>), T(<<"2">>), T(<<"1">>), T(<<"1">>), T(<<"u">>), T(<<"a">>), NA)
          EXCEPT !.src = 3],
      [OrdRow(T(<<"3">>), T(<<"2">>), T(<<"1">>), T(<<"1">>), T(<<"1">>), T(<<"u">>), T(<<"a">>), NA)
          EXCEPT !.src = 4]>>

\* The amounts money_round is applied to: every number of thousandths up to
\* MaxWhole units, of either sign, a missing value, and texts
MaxWhole == 2
MoneyInputs ==
    {Flt(s * (w * 1000 + f)) : s \in {-1, 1}, w \in 0..MaxWhole, f \in 0..999}
    \cup {NA, T(<<"a", "b", "c">>), T(<<"2", ".", "0", "0", "5">>), T(<<>>)}

(* --------------------------------- state --------------------------------- *)

VARIABLES
    keeps_na,      \* whether the installed pandas keeps a missing value in astype(str)
    raw_cust,      \* safe_read_csv(CUSTOMERS_CSV)
    raw_prod,      \* safe_read_csv(PRODUCTS_CSV)
    raw_ord,       \* safe_read_csv(ORDERS_CSV)
    ord_columns,   \* the header of raw_ord
    cust,          \* main's cust
    prod,          \* main's prod
    ords,          \* main's ords
    dropped,       \* the drop count each cleaner printed, -1 before it prints
    clock,         \* the instant datetime.now() returns next
    pc,            \* the statement main is at, "raised" after an exception
    again,         \* what each cleaner returns when applied to its own output
    money,         \* a call of money_round: its argument x and its result
    written,       \* the CSV files main has written, by name
    outfile,       \* the stream file of the generator: whether it exists, its lines
    current_id,    \* stream_append_orders_loop's current_id
    stream_pc      \* where stream_append_orders_loop is: "stopped" or "running"

vars == <<keeps_na, raw_cust, raw_prod, raw_ord, ord_columns, cust, prod, ords, dropped, clock,
          pc, again, money, written, outfile, current_id, stream_pc>>

\* The state of the generator, which the pipeline leaves alone
stream_vars == <<outfile, current_id, stream_pc>>

\* The generator before it is run: no stream file
NoStream ==
    /\ outfile = [exists |-> FALSE, lines |-> <<>>]
    /\ current_id = 0
    /\ stream_pc = "stopped"

\* No file written yet
NoFiles == [f \in {} |-> <<>>]

NoTable == <<>>

InitInputs ==
    \/ /\ \/ IsTable(raw_cust, CustRowsValid, MaxCust)
          \/ IsTable(raw_cust, CustRowsEmail, MaxCust)
          \/ IsTable(raw_cust, CustRowsPhone, MaxCust)
          \/ IsTable(raw_cust, CustRowsDate, MaxCust)
       /\ raw_prod = DefaultProd
       /\ raw_ord = DefaultOrd
       /\ ord_columns = FullHeader
    \/ /\ raw_cust = DefaultCust
       /\ \/ IsTable(raw_prod, ProdRowsValid, MaxProd)
          \/ IsTable(raw_prod, ProdRowsPrice, MaxProd)
       /\ raw_ord = DefaultOrd
       /\ ord_columns = FullHeader
    \/ /\ raw_cust = DefaultCust
       /\ raw_prod = DefaultProd
       /\ \/ IsTable(raw_ord, OrdRowsRefs, MaxOrd)
          \/ IsTable(raw_ord, OrdRowsTime, MaxOrd)
          \/ IsTable(raw_ord, OrdRowsQuantity, MaxOrd)
       /\ ord_columns = FullHeader
    \/ /\ raw_cust = DefaultCust
       /\ raw_prod = DefaultProd
       /\ ord_columns \in Headers
       /\ \E k \in 0..MaxOrd : \E t \in [1..k -> OrdRowsText] :
             raw_ord = UnderHeader(WithSrc(t), ord_columns)

\* The state when main has read the three files
Init ==
    /\ keeps_na \in BOOLEAN
    /\ InitInputs
    /\ cust = NoTable
    /\ prod = NoTable
    /\ ords = NoTable
    /\ dropped = [customers |-> -1, products |-> -1, orders |-> -1]
    /\ clock = StartClock
    /\ pc = "clean_customers"
    /\ again = [cust |-> NoTable, prod |-> NoTable, ords |-> NoTable]
    /\ money = [x |-> NA, result |-> NA, returned |-> FALSE]
    /\ written = NoFiles
    /\ NoStream

\* main, line 226
CleanCustomers ==
    /\ pc = "clean_customers"
    /\ LET res == clean_customers(raw_cust, keeps_na) IN
       IF res.raises
       THEN pc' = "raised" /\ UNCHANGED <<cust, dropped>>
       ELSE /\ cust' \in res.returns
            /\ dropped' = [dropped EXCEPT !.customers = res.dropped]
            /\ pc' = "clean_products"
    /\ UNCHANGED <<keeps_na, raw_cust, raw_prod, raw_ord, ord_columns, prod, ords, clock,
                   again, money>>
    /\ UNCHANGED <<written, stream_vars>>

\* main, line 229
CleanProducts ==
    /\ pc = "clean_products"
    /\ LET res == clean_products(raw_prod, keeps_na) IN
       IF res.raises
       THEN pc' = "raised" /\ UNCHANGED <<prod, dropped>>
       ELSE /\ prod' \in res.returns
            /\ dropped' = [dropped EXCEPT !.products = res.dropped]
            /\ pc' = "clean_orders"
    /\ UNCHANGED <<keeps_na, raw_cust, raw_prod, raw_ord, ord_columns, cust, ords, clock,
                   again, money>>
    /\ UNCHANGED <<written, stream_vars>>

\* main, lines 232-238
CleanOrders ==
    /\ pc = "clean_orders"
    /\ LET res == clean_orders(raw_ord, ord_columns, id_set(cust, "customer_id"),
                               id_set(prod, "product_id"), price_dict(prod), clock, keeps_na)
       IN IF res.raises
          THEN pc' = "raised" /\ UNCHANGED <<ords, dropped>>
          ELSE /\ dropped' = [dropped EXCEPT !.orders = res.dropped]
               /\ \/ res.empty_raises /\ pc' = "raised" /\ UNCHANGED ords
                  \/ ords' \in res.returns /\ pc' = "cleaned"
    /\ clock' = clock + 1
    /\ UNCHANGED <<keeps_na, raw_cust, raw_prod, raw_ord, ord_columns, cust, prod, again, money>>
    /\ UNCHANGED <<written, stream_vars>>

Next == CleanCustomers \/ CleanProducts \/ CleanOrders

Spec == Init /\ [][Next]_vars

(* ------------------- main after cleaning: analytics, saving --------------- *)

OUT_CUSTOMERS == "clean_customers.csv"
OUT_PRODUCTS == "clean_products.csv"
OUT_ORDERS == "clean_orders.csv"

\* The columns of customers.csv and products.csv, which the cleaners keep
CustomersHeader == {"customer_id", "name", "email", "phone", "city", "state", "signup_date"}
ProductsHeader ==
    {"product_id", "product_name", "category", "brand", "price", "stock_quantity"}

\* The columns of the table clean_orders returns: those of the file it was given
\* and those it assigns (lines 146-172)
clean_orders_columns(columns) ==
    columns \cup {"order_id", "customer_id", "product_id", "quantity", "order_timestamp",
                  "shipping_city", "payment_method", "status", "order_value"}

\* The instants of one month
MonthLen == 2

\* Series.dt.to_period('M') on one cell
to_period(c) == IF isna(c) THEN NA ELSE [t |-> "period", v |-> c.v \div MonthLen]

\* Series.notna().any()
notna_any(df, col) == \E i \in 1..Len(df) : ~isna(df[i][col])

\* ords['month'] = ..., line 212: the assignment adds the column to the table itself
assign_month(df) ==
    [i \in 1..Len(df) |->
        [f \in DOMAIN df[i] \cup {"month"} |->
            IF f = "month" THEN to_period(df[i].order_timestamp) ELSE df[i][f]]]

\* The columns of main's ords: those clean_orders returned, and month once assigned
ords_frame_columns(df, columns) ==
    clean_orders_columns(columns)
        \cup (IF df # <<>> /\ "month" \in DOMAIN df[1] THEN {"month"} ELSE {})

\* analytics(cust, prod, ords), lines 185-215, as to what it does to its arguments:
\* the summaries of lines 192-209 and 213 are new tables that are printed; cust and
\* prod are only read; ords gets the month column when a row has a timestamp
analytics(ord_df) ==
    IF notna_any(ord_df, "order_timestamp") THEN assign_month(ord_df) ELSE ord_df

\* When no timestamp of the raw file parses, the column clean_orders backfills
\* starts timezone-naive; filled with a UTC instant it may be kept as a column of
\* objects, on which the .dt accessor of line 212 raises
naive_timestamps ==
    \A i \in 1..Len(raw_ord) :
        isna(orders_columns(raw_ord[i], ord_columns, keeps_na).order_timestamp)

\* DataFrame.to_csv(path, index=False)
to_csv(df, columns) == [columns |-> columns, rows |-> df]

\* .dt.strftime('%Y-%m-%dT%H:%M:%SZ') on one cell
strftime(c) == IF isna(c) THEN NA ELSE Str(NatText(c.v))

\* main, lines 240-244: the cleaned customers and products are saved, then
\* analytics is called on the three tables
Analytics ==
    /\ pc = "cleaned"
    /\ written' = [f \in {OUT_CUSTOMERS, OUT_PRODUCTS} |->
                      IF f = OUT_CUSTOMERS THEN to_csv(cust, CustomersHeader)
                      ELSE to_csv(prod, ProductsHeader)]
    /\ \/ /\ notna_any(ords, "order_timestamp") /\ naive_timestamps
          /\ pc' = "raised"
          /\ UNCHANGED ords
       \/ /\ ords' = analytics(ords)
          /\ pc' = "analysed"
    /\ UNCHANGED <<keeps_na, raw_cust, raw_prod, raw_ord, ord_columns, cust, prod, dropped,
                   clock, again, money, stream_vars>>

\* main, lines 246-247: the timestamps are formatted and the orders are saved
SaveOrders ==
    /\ pc = "analysed"
    /\ ords' = [k \in 1..Len(ords) |->
                   [ords[k] EXCEPT !.order_timestamp = strftime(@)]]
    /\ written' = [f \in DOMAIN written \cup {OUT_ORDERS} |->
                      IF f = OUT_ORDERS
                      THEN to_csv(ords', ords_frame_columns(ords, ord_columns))
                      ELSE written[f]]
    /\ pc' = "done"
    /\ UNCHANGED <<keeps_na, raw_cust, raw_prod, raw_ord, ord_columns, cust, prod, dropped,
                   clock, again, money, stream_vars>>

NextMain == Next \/ Analytics \/ SaveOrders

SpecMain == Init /\ [][NextMain]_vars

(* ------------------- the cleaners on their own output -------------------- *)

\* clean_customers(cust)
ReCleanCustomers ==
    /\ pc = "cleaned"
    /\ LET res == clean_customers(cust, keeps_na) IN
       IF res.raises
       THEN pc' = "raised" /\ UNCHANGED again
       ELSE \E out \in res.returns : again' = [again EXCEPT !.cust = out] /\ pc' = "reclean_products"
    /\ UNCHANGED <<keeps_na, raw_cust, raw_prod, raw_ord, ord_columns, cust, prod, ords, dropped,
                   clock, money>>
    /\ UNCHANGED <<written, stream_vars>>

\* clean_products(prod)
ReCleanProducts ==
    /\ pc = "reclean_products"
    /\ LET res == clean_products(prod, keeps_na) IN
       IF res.raises
       THEN pc' = "raised" /\ UNCHANGED again
       ELSE \E out \in res.returns : again' = [again EXCEPT !.prod = out] /\ pc' = "reclean_orders"
    /\ UNCHANGED <<keeps_na, raw_cust, raw_prod, raw_ord, ord_columns, cust, prod, ords, dropped,
                   clock, money>>
    /\ UNCHANGED <<written, stream_vars>>

\* clean_orders(ords, ...) with the id sets and the price lookup of the first call;
\* the table clean_orders returned has an order_timestamp column
ReCleanOrders ==
    /\ pc = "reclean_orders"
    /\ LET res == clean_orders(ords, ord_columns \cup {"order_timestamp"},
                               id_set(cust, "customer_id"), id_set(prod, "product_id"),
                               price_dict(prod), clock, keeps_na)
       IN IF res.raises
          THEN pc' = "raised" /\ UNCHANGED again
          ELSE \/ res.empty_raises /\ pc' = "raised" /\ UNCHANGED again
               \/ \E out \in res.returns : again' = [again EXCEPT !.ords = out] /\ pc' = "recleaned"
    /\ clock' = clock + 1
    /\ UNCHANGED <<keeps_na, raw_cust, raw_prod, raw_ord, ord_columns, cust, prod, ords, dropped,
                   money>>
    /\ UNCHANGED <<written, stream_vars>>

NextTwice == Next \/ ReCleanCustomers \/ ReCleanProducts \/ ReCleanOrders

\* The second applications are explored from the inputs of Init whose customers
\* file, where it is the file varied, has at most MaxTwice rows
MaxTwice == 2
InitTwice == Init /\ (raw_cust = DefaultCust \/ Len(raw_cust) <= MaxTwice)

SpecTwice == InitTwice /\ [][NextTwice]_vars

(* ------------------------- money_round on its own ------------------------ *)

InitMoney ==
    /\ keeps_na = FALSE
    /\ raw_cust = NoTable
    /\ raw_prod = NoTable
    /\ raw_ord = NoTable
    /\ ord_columns = FullHeader
    /\ cust = NoTable
    /\ prod = NoTable
    /\ ords = NoTable
    /\ dropped = [customers |-> -1, products |-> -1, orders |-> -1]
    /\ clock = StartClock
    /\ pc = "money_round"
    /\ again = [cust |-> NoTable, prod |-> NoTable, ords |-> NoTable]
    /\ \E x \in MoneyInputs : money = [x |-> x, result |-> NA, returned |-> FALSE]
    /\ written = NoFiles
    /\ NoStream

\* money_round(x), lines 81-89
MoneyRound ==
    /\ pc = "money_round"
    /\ ~money.returned
    /\ money' = [money EXCEPT !.result = money_round(money.x), !.returned = TRUE]
    /\ UNCHANGED <<keeps_na, raw_cust, raw_prod, raw_ord, ord_columns, cust, prod, ords, dropped,
                   clock, pc, again>>
    /\ UNCHANGED <<written, stream_vars>>

SpecMoney == InitMoney /\ [][MoneyRound]_vars

(* ------------- the generator's stream file (Extract__data) --------------- *)

\* A line of the stream file is modelled by its first cell, the one of the
\* order_id column: the other eight columns are written and never read back.
\* The header line holds the column's name, a data line the id as text.
OrderIdName == Str(<<"o", "r", "d", "e", "r", "_", "i", "d">>)

\* The start_id main passes to stream_append_orders_loop
StartId == 1

MaxLines == 5
MaxBatch == 2

\* save_to_csv(data, filename, fieldnames, mode), lines 196-204, as to the file:
\* mode 'w' truncates and writes the header, mode 'a' appends and writes none;
\* data are the order ids of the records
save_to_csv(file, data, fieldnames, mode) ==
    LET old == IF mode = "w" THEN <<>> ELSE file.lines
        head == IF mode = "w" THEN <<fieldnames>> ELSE <<>>
    IN [exists |-> TRUE,
        lines |-> old \o head \o [i \in 1..Len(data) |-> Str(NatText(data[i]))]]

\* list(csv.DictReader(f)): the first line gives the field names, every other line
\* is a row keyed by them
DictReader(lines) ==
    [fieldnames |-> IF lines = <<>> THEN NA ELSE lines[1],
     rows |-> IF lines = <<>> THEN <<>> ELSE Tail(lines)]

\* lines 219-227: the id the loop starts at.  rows[-1]['order_id'] raises KeyError
\* when the first line of the file is no header, int() raises ValueError on a text
\* that is no integer; either way the except clause keeps the start_id given
first_id(file, start_id) ==
    IF ~file.exists THEN start_id
    ELSE LET read == DictReader(file.lines)
             last == read.rows[Len(read.rows)]
         IN IF read.rows = <<>> THEN start_id
            ELSE IF read.fieldnames # OrderIdName THEN start_id
            ELSE IF last.v = <<>> \/ ~AllDigits(last.v) THEN start_id
            ELSE DigitsValue(last.v) + 1

\* A stream file written like a batch file: the header and rows numbered from 1
BatchFile(n) == save_to_csv([exists |-> FALSE, lines |-> <<>>], [i \in 1..n |-> i],
                            OrderIdName, "w")

\* The generator is about to be run in stream-file mode: the stream file does not
\* exist, or holds a batch of orders
InitStream ==
    /\ keeps_na = FALSE
    /\ raw_cust = NoTable
    /\ raw_prod = NoTable
    /\ raw_ord = NoTable
    /\ ord_columns = FullHeader
    /\ cust = NoTable
    /\ prod = NoTable
    /\ ords = NoTable
    /\ dropped = [customers |-> -1, products |-> -1, orders |-> -1]
    /\ clock = StartClock
    /\ pc = "stream"
    /\ again = [cust |-> NoTable, prod |-> NoTable, ords |-> NoTable]
    /\ money = [x |-> NA, result |-> NA, returned |-> FALSE]
    /\ written = NoFiles
    /\ \/ outfile = [exists |-> FALSE, lines |-> <<>>]
       \/ \E n \in 0..MaxBatch : outfile = BatchFile(n)
    /\ current_id = 0
    /\ stream_pc = "stopped"

\* stream_append_orders_loop is called (main, line 336): lines 219-232
StreamStart ==
    /\ pc = "stream"
    /\ stream_pc = "stopped"
    /\ current_id' = first_id(outfile, StartId)
    /\ stream_pc' = "running"
    /\ UNCHANGED <<keeps_na, raw_cust, raw_prod, raw_ord, ord_columns, cust, prod, ords, dropped,
                   clock, pc, again, money, written, outfile>>

\* One turn of the loop, lines 235-240: an event is appended under current_id
StreamAppend ==
    /\ pc = "stream"
    /\ stream_pc = "running"
    /\ Len(outfile.lines) < MaxLines
    /\ outfile' = save_to_csv(outfile, <<current_id>>, OrderIdName, "a")
    /\ current_id' = current_id + 1
    /\ UNCHANGED <<keeps_na, raw_cust, raw_prod, raw_ord, ord_columns, cust, prod, ords, dropped,
                   clock, pc, again, money, written, stream_pc>>

\* KeyboardInterrupt, lines 242-243: the loop ends; it can be called again
StreamStop ==
    /\ pc = "stream"
    /\ stream_pc = "running"
    /\ stream_pc' = "stopped"
    /\ UNCHANGED <<keeps_na, raw_cust, raw_prod, raw_ord, ord_columns, cust, prod, ords, dropped,
                   clock, pc, again, money, written, outfile, current_id>>

NextStream == StreamStart \/ StreamAppend \/ StreamStop

SpecStream == InitStream /\ [][NextStream]_vars

(* -------------------------------- claims --------------------------------- *)

\* The rows of a table whose raw row is row i of the file it was read from
FromRaw(df, i) == {k \in 1..Len(df) : df[k].src = i}

\* C1: when main has cleaned the three files, every order row clean_orders returned
\* has a customer_id that is the id of a row of the cleaned customers and a
\* product_id that is the id of a row of the cleaned products.
C1_ReferentialIntegrity ==
    pc = "cleaned" =>
        \A i \in 1..Len(ords) :
            /\ \E j \in 1..Len(cust) : cust[j].customer_id = ords[i].customer_id
            /\ \E j \in 1..Len(prod) : prod[j].product_id = ords[i].product_id

\* C1, witness: orders were returned, and an order of the raw file that names a
\* customer of the raw file who did not survive cleaning is not among them.
C1_Witness ==
    /\ pc = "cleaned"
    /\ ords # <<>>
    /\ \E i \in 1..Len(raw_ord) : \E j \in 1..Len(raw_cust) :
          /\ ~isna(to_numeric(raw_ord[i].customer_id))
          /\ to_numeric(raw_ord[i].customer_id) = to_numeric(raw_cust[j].customer_id)
          /\ \A k \in 1..Len(cust) : cust[k].src # j
          /\ \A k \in 1..Len(cust) :
                cust[k].customer_id # astype_Int64(to_numeric(raw_ord[i].customer_id))
          /\ FromRaw(ords, i) = {}

\* The dedup key of a cleaned customer: the email if there is one, else the phone
\* if there is one, else the name followed by the signup date as text
DedupKey(r) ==
    IF ~isna(r.email) THEN r.email
    ELSE IF ~isna(r.phone) THEN r.phone
    ELSE concat(r.name, datetime_astype_str(r.signup_date, keeps_na))

\* C2: no two rows of the cleaned customers have the same dedup key, no two rows of
\* the cleaned products the same product_id, no two rows of the cleaned orders the
\* same order_id.
C2_NoDuplicates ==
    /\ \A i, j \in 1..Len(cust) : i # j => DedupKey(cust[i]) # DedupKey(cust[j])
    /\ \A i, j \in 1..Len(prod) : i # j => prod[i].product_id # prod[j].product_id
    /\ \A i, j \in 1..Len(ords) : i # j => ords[i].order_id # ords[j].order_id

\* C2, witness: each of the three cleaners has returned fewer rows than it kept as
\* valid, so each has removed a duplicate.
C2_Witness ==
    /\ pc = "cleaned"
    /\ cust # <<>> /\ Len(cust) + dropped.customers < Len(raw_cust)
    /\ prod # <<>> /\ Len(prod) + dropped.products < Len(raw_prod)
    /\ ords # <<>> /\ Len(ords) + dropped.orders < Len(raw_ord)

\* A raw id cell that holds no id: a null cell, or a text that is no number
AbsentId(c) == isna(c) \/ isna(to_numeric(c))

\* A raw text cell that holds no text: a null cell, or whitespace only
AbsentText(c) == isna(c) \/ str_strip(c.v) = <<>>

\* The rows of the raw customers (products) whose id or name is absent
AbsentCustomers ==
    {i \in 1..Len(raw_cust) : AbsentId(raw_cust[i].customer_id) \/ AbsentText(raw_cust[i].name)}
AbsentProducts ==
    {i \in 1..Len(raw_prod) :
        AbsentId(raw_prod[i].product_id) \/ AbsentText(raw_prod[i].product_name)}

\* C3: once clean_customers (clean_products) has returned, no row it returned comes
\* from a raw row whose id or name is absent, and the drop count it printed is the
\* number of raw rows whose id or name is absent.
C3_DropsAbsent ==
    /\ dropped.customers # -1 =>
          /\ \A k \in 1..Len(cust) : cust[k].src \notin AbsentCustomers
          /\ dropped.customers = Cardinality(AbsentCustomers)
    /\ dropped.products # -1 =>
          /\ \A k \in 1..Len(prod) : prod[k].src \notin AbsentProducts
          /\ dropped.products = Cardinality(AbsentProducts)

\* C4: once clean_customers has returned, every valid raw row whose email cell is
\* null and whose phone normalizes to a number is represented in the result by a
\* row without an email and with that normalized phone; so two such rows with
\* different phones both survive.
C4_NullEmailKeyIsPhone ==
    dropped.customers # -1 =>
        \A i \in (1..Len(raw_cust)) \ AbsentCustomers :
            (isna(raw_cust[i].email) /\ ~isna(normalize_phone(raw_cust[i].phone))) =>
                \E k \in 1..Len(cust) :
                    /\ AbsentText(raw_cust[cust[k].src].email)
                    /\ normalize_phone(raw_cust[cust[k].src].phone)
                          = normalize_phone(raw_cust[i].phone)

\* The valid raw customers whose email is present and normalizes to e
SameEmail(e) ==
    {i \in (1..Len(raw_cust)) \ AbsentCustomers :
        ~AbsentText(raw_cust[i].email) /\ normalize_email(raw_cust[i].email) = e}

\* C5: once clean_customers has returned, of two or more valid raw rows that share
\* an email up to letter case and whitespace and whose signup dates are present and
\* pairwise different, exactly one is in the result: the one of the earliest date.
C5_EarliestSignupKept ==
    dropped.customers # -1 =>
        \A n \in 1..Len(raw_cust) :
            LET G == SameEmail(normalize_email(raw_cust[n].email))
                date(i) == parse_date_safe(raw_cust[i].signup_date)
            IN (/\ n \in G
                /\ Cardinality(G) >= 2
                /\ \A i \in G : ~isna(date(i))
                /\ \A i, j \in G : i # j => date(i) # date(j))
               => \E i \in G :
                     /\ FromRaw(cust, i) # {}
                     /\ \A j \in G \ {i} : FromRaw(cust, j) = {} /\ date(i).v < date(j).v

\* C6: when main has cleaned the three files, the quantity of every order row is an
\* integer of at least 1, and is 1 where the raw quantity is missing, no number,
\* zero, negative or no integer.
C6_QuantityPositive ==
    pc = "cleaned" =>
        \A k \in 1..Len(ords) :
            LET q == to_numeric(raw_ord[ords[k].src].quantity) IN
            /\ ords[k].quantity.t = "int"
            /\ ords[k].quantity.v >= 1
            /\ (isna(q) \/ q.v <= 0 \/ q.v % 1000 # 0) => ords[k].quantity.v = 1

\* m thousandths rounded to whole hundredths: the nearest, a tie going away from zero
HalfUpCents(m) ==
    CHOOSE q \in (m - 5)..(m + 5) :
        q % 10 = 0 /\ (IF m >= 0 THEN q - m \in -4..5 ELSE m - q \in -4..5)

\* The raw orders with nothing in their order_value column
WithoutValues(df) == [i \in 1..Len(df) |-> [df[i] EXCEPT !.order_value = NA]]

\* C7: when main has cleaned the three files, the order_value of every order row is
\* the price of its product among the cleaned products times the row's cleaned
\* quantity, rounded half-up to hundredths, and is missing exactly when that product
\* has no price; and the rows are those clean_orders returns for the same file with
\* an empty order_value column.
C7_OrderValue ==
    pc = "cleaned" =>
        /\ \A k \in 1..Len(ords) :
              LET priced == {j \in 1..Len(prod) : /\ prod[j].product_id = ords[k].product_id
                                                  /\ ~isna(prod[j].price)}
              IN IF priced = {} THEN isna(ords[k].order_value)
                 ELSE \A j \in priced :
                        ords[k].order_value
                           = Flt(HalfUpCents(prod[j].price.v * ords[k].quantity.v))
        /\ ords \in clean_orders(WithoutValues(raw_ord), ord_columns,
                                 id_set(cust, "customer_id"), id_set(prod, "product_id"),
                                 price_dict(prod), clock - 1, keeps_na).returns

\* C7, witness: an order of several units has a value that is not its raw value,
\* and an order of a product without a price has none.
C7_Witness ==
    /\ pc = "cleaned"
    /\ \E k \in 1..Len(ords) :
          /\ ords[k].quantity.v > 1
          /\ ~isna(ords[k].order_value)
          /\ ~isna(raw_ord[ords[k].src].order_value)
          /\ ords[k].order_value # to_numeric(raw_ord[ords[k].src].order_value)
    /\ \E k \in 1..Len(ords) : isna(ords[k].order_value)

\* Two tables hold the same rows with the same values
SameRows(a, b) ==
    Len(a) = Len(b) /\ {a[i] : i \in 1..Len(a)} = {b[i] : i \in 1..Len(b)}

\* C8: a cleaner applied to the table it returned (clean_orders with the id sets and
\* the price lookup of its first call) returns the same rows with the same values.
C8_Idempotent ==
    /\ pc \in {"reclean_products", "reclean_orders", "recleaned"} => SameRows(again.cust, cust)
    /\ pc \in {"reclean_orders", "recleaned"} => SameRows(again.prod, prod)
    /\ pc = "recleaned" => SameRows(again.ords, ords)

\* C9: money_round of a number is the nearest whole hundredth, a tie going away
\* from zero (2.005 gives 2.01); a number of whole hundredths is returned as it is;
\* a text that is no number gives a missing value.
C9_MoneyRoundHalfUp ==
    money.returned =>
        /\ money.x.t = "flt" =>
              /\ money.result.t = "flt"
              /\ money.result.v % 10 = 0
              /\ Abs(money.result.v - money.x.v) <= 5
              /\ Abs(money.result.v - money.x.v) = 5 => Abs(money.result.v) > Abs(money.x.v)
              /\ money.x.v % 10 = 0 => money.result = money.x
        /\ money.x = Flt(2005) => money.result = Flt(2010)
        /\ money.x = T(<<"2", ".", "0", "0", "5">>) => money.result = Flt(2010)
        /\ money.x = T(<<"a", "b", "c">>) => isna(money.result)

\* C9, witness: money_round has returned 2.01 for 2.005
C9_Witness ==
    money.returned /\ money.x = Flt(2005) /\ money.result = Flt(2010)

Unknown == <<"U", "n", "k", "n", "o", "w", "n">>

\* The text a payment_method or status cell is to become
TitleOrUnknown(c) == IF isna(c) THEN Str(Unknown) ELSE Str(str_title(c.v))

\* C10: when main has cleaned the three files, payment_method and status of every
\* order row are "Unknown" where the raw cell is null or the column is missing and
\* the title-cased raw text otherwise; and clean_orders does not fail on a file that
\* lacks one of the two columns.
C10_UnknownDefault ==
    /\ pc = "cleaned" =>
          \A k \in 1..Len(ords) :
              /\ ords[k].payment_method = TitleOrUnknown(raw_ord[ords[k].src].payment_method)
              /\ ords[k].status = TitleOrUnknown(raw_ord[ords[k].src].status)
    /\ (pc = "raised" /\ dropped.products # -1 /\ dropped.orders = -1) =>
          {"payment_method", "status"} \subseteq ord_columns

\* C11: the call of analytics leaves the customers, products and orders tables as
\* they were (same columns, same values), and the orders file main writes has
\* exactly the columns of the table clean_orders returned.
C11_AnalyticsReadOnly ==
    [][/\ (pc = "cleaned" /\ pc' = "analysed") =>
             (cust' = cust /\ prod' = prod /\ ords' = ords)
       /\ pc' = "done" =>
             written'[OUT_ORDERS].columns = clean_orders_columns(ord_columns)]_vars

\* The order ids of the data lines of the stream file, in file order
StreamIds ==
    LET data == SelectSeq(outfile.lines, LAMBDA l : l # OrderIdName)
    IN [i \in 1..Len(data) |-> DigitsValue(data[i].v)]

\* C12: in the stream file every row after the first has the order_id of the row
\* before it plus one, whatever events were appended and however often the loop
\* was stopped and started again; so no two rows have the same order_id.
C12_StreamIdsIncrease ==
    /\ \A i \in 2..Len(StreamIds) : StreamIds[i] = StreamIds[i - 1] + 1
    /\ \A i, j \in 1..Len(StreamIds) : i # j => StreamIds[i] # StreamIds[j]
====
